---- MODULE Spec2Model ----
(***************************************************************************)
(* A model of connection.py: the framed connection                         *)
(* (SimpleSocketConnection) over a byte stream, and the master and slave   *)
(* relay threads (SimpleConnectionMasterThread,                            *)
(* SimpleConnectionSlaveThread) with their queues.                         *)
(*                                                                         *)
(* Text is a sequence of code points, bytes are a sequence of numbers      *)
(* 0..255.  A Python value is a record [kind, num, str, items]: None/null, *)
(* an int, a str, a list of scalars, or a dict of str keys to scalars      *)
(* (items alternates key, value).                                          *)
(***************************************************************************)
EXTENDS Integers, Sequences, FiniteSets, TLC

(***************************************************************************)
(* Bounds of the model.                                                    *)
(***************************************************************************)
\* longest text the framed-connection scenarios send, in code points
MaxLen == 2
\* most frames written to the stream of a framed-connection scenario
MaxFrames == 1
\* most put_command calls of the master application
MaxCmds == 2
\* most put_response calls of the slave application
MaxResp == 2
\* most zero-byte reads of a closed transport that are counted
MaxZeroReads == 2
\* most get(block=False) calls answered with queue.Empty that are recorded
MaxWouldBlock == 1

(***************************************************************************)
(* Program constants.                                                      *)
(***************************************************************************)
JSON_TYPE == 106
STRING_TYPE == 115
HEADER_LENGTH == 10

(***************************************************************************)
(* Python values.                                                          *)
(***************************************************************************)
PyNone == [kind |-> "null", num |-> 0, str |-> <<>>, items |-> <<>>]
PyInt(n) == [kind |-> "int", num |-> n, str |-> <<>>, items |-> <<>>]
PyStr(s) == [kind |-> "str", num |-> 0, str |-> s, items |-> <<>>]
PyList(xs) == [kind |-> "list", num |-> 0, str |-> <<>>, items |-> xs]
PyDict(kvs) == [kind |-> "dict", num |-> 0, str |-> <<>>, items |-> kvs]

(***************************************************************************)
(* str.encode() and bytes.decode(): UTF-8 for code points below 2048.      *)
(***************************************************************************)
EncodeChar(c) ==
    IF c < 128 THEN <<c>> ELSE <<192 + (c \div 64), 128 + (c % 64)>>

RECURSIVE encode(_)
encode(string) ==
    IF string = <<>> THEN <<>>
    ELSE EncodeChar(Head(string)) \o encode(Tail(string))

\* decode(bytes): [ok, text]; ok is FALSE where Python raises UnicodeDecodeError
RECURSIVE decode(_)
decode(bytes) ==
    IF bytes = <<>> THEN [ok |-> TRUE, text |-> <<>>]
    ELSE LET b == Head(bytes) IN
         IF b < 128
         THEN LET r == decode(Tail(bytes)) IN
              [ok |-> r.ok, text |-> IF r.ok THEN <<b>> \o r.text ELSE <<>>]
         ELSE IF b >= 194 /\ b < 224 /\ Len(bytes) >= 2
                 /\ bytes[2] >= 128 /\ bytes[2] < 192
         THEN LET r == decode(SubSeq(bytes, 3, Len(bytes))) IN
              [ok |-> r.ok,
               text |-> IF r.ok
                        THEN <<(b - 192) * 64 + (bytes[2] - 128)>> \o r.text
                        ELSE <<>>]
         ELSE [ok |-> FALSE, text |-> <<>>]

\* _length counting code points, not bytes
_length_in_characters(string) == Len(string)

\* SimpleSocketConnection._length: the length of the UTF-8 encoding
_length(string) == Len(encode(string))

(***************************************************************************)
(* str(int), str.zfill(width) and int(str).                                *)
(***************************************************************************)
RECURSIVE DecDigits(_)
DecDigits(n) ==
    IF n < 10 THEN <<48 + n>> ELSE DecDigits(n \div 10) \o <<48 + (n % 10)>>

str(n) == IF n < 0 THEN <<45>> \o DecDigits(0 - n) ELSE DecDigits(n)

RECURSIVE Zeros(_)
Zeros(k) == IF k <= 0 THEN <<>> ELSE <<48>> \o Zeros(k - 1)

zfill(s, width) ==
    IF Len(s) >= width THEN s
    ELSE IF s # <<>> /\ s[1] \in {43, 45}
    THEN <<s[1]>> \o Zeros(width - Len(s)) \o Tail(s)
    ELSE Zeros(width - Len(s)) \o s

IsDigit(c) == c >= 48 /\ c <= 57
IsSpace(c) == c \in {9, 10, 11, 12, 13, 32}

RECURSIVE DigitsValue(_, _)
DigitsValue(s, acc) ==
    IF s = <<>> THEN acc ELSE DigitsValue(Tail(s), acc * 10 + (Head(s) - 48))

RECURSIVE LStrip(_)
LStrip(s) == IF s # <<>> /\ IsSpace(Head(s)) THEN LStrip(Tail(s)) ELSE s

RECURSIVE RStrip(_)
RStrip(s) ==
    IF s # <<>> /\ IsSpace(s[Len(s)]) THEN RStrip(SubSeq(s, 1, Len(s) - 1)) ELSE s

RECURSIVE DropUnderscores(_)
DropUnderscores(s) ==
    IF s = <<>> THEN <<>>
    ELSE IF Head(s) = 95 THEN DropUnderscores(Tail(s))
    ELSE <<Head(s)>> \o DropUnderscores(Tail(s))

\* int(text): [ok, val]; ok is FALSE where Python raises ValueError.  Python
\* strips white space, takes one sign and then decimal digits, which single
\* underscores may separate.
IntDigitsOk(d) ==
    /\ d # <<>>
    /\ IsDigit(d[1]) /\ IsDigit(d[Len(d)])
    /\ \A i \in 1..Len(d) : IsDigit(d[i]) \/ d[i] = 95
    /\ \A i \in 1..(Len(d) - 1) : ~(d[i] = 95 /\ d[i + 1] = 95)

IntOfDigits(negative, d) ==
    IF ~IntDigitsOk(d) THEN [ok |-> FALSE, val |-> 0]
    ELSE IF negative THEN [ok |-> TRUE, val |-> 0 - DigitsValue(DropUnderscores(d), 0)]
    ELSE [ok |-> TRUE, val |-> DigitsValue(DropUnderscores(d), 0)]

IntOfStripped(t) ==
    IF t # <<>> /\ t[1] \in {43, 45} THEN IntOfDigits(t[1] = 45, Tail(t))
    ELSE IntOfDigits(FALSE, t)

int(text) == IntOfStripped(RStrip(LStrip(text)))

(***************************************************************************)
(* json.dumps(obj) with its defaults (ensure_ascii, separators ", " and    *)
(* ": "), for the values of this model.                                    *)
(***************************************************************************)
HexDigit(d) == IF d < 10 THEN 48 + d ELSE 87 + d

Hex4(c) ==
    <<HexDigit((c \div 4096) % 16), HexDigit((c \div 256) % 16),
      HexDigit((c \div 16) % 16), HexDigit(c % 16)>>

EscapeChar(c) ==
    IF c = 34 THEN <<92, 34>>
    ELSE IF c = 92 THEN <<92, 92>>
    ELSE IF c = 10 THEN <<92, 110>>
    ELSE IF c = 13 THEN <<92, 114>>
    ELSE IF c = 9 THEN <<92, 116>>
    ELSE IF c = 8 THEN <<92, 98>>
    ELSE IF c = 12 THEN <<92, 102>>
    ELSE IF c < 32 \/ c > 126 THEN <<92, 117>> \o Hex4(c)
    ELSE <<c>>

RECURSIVE EscapeText(_)
EscapeText(s) ==
    IF s = <<>> THEN <<>> ELSE EscapeChar(Head(s)) \o EscapeText(Tail(s))

DumpsScalar(v) ==
    IF v.kind = "null" THEN <<110, 117, 108, 108>>
    ELSE IF v.kind = "int" THEN str(v.num)
    ELSE <<34>> \o EscapeText(v.str) \o <<34>>

RECURSIVE DumpsItems(_)
DumpsItems(xs) ==
    IF xs = <<>> THEN <<>>
    ELSE IF Len(xs) = 1 THEN DumpsScalar(xs[1])
    ELSE DumpsScalar(xs[1]) \o <<44, 32>> \o DumpsItems(Tail(xs))

RECURSIVE DumpsPairs(_)
DumpsPairs(kvs) ==
    IF kvs = <<>> THEN <<>>
    ELSE LET one == DumpsScalar(kvs[1]) \o <<58, 32>> \o DumpsScalar(kvs[2])
             rest == SubSeq(kvs, 3, Len(kvs))
         IN IF rest = <<>> THEN one ELSE one \o <<44, 32>> \o DumpsPairs(rest)

json_dumps(obj) ==
    IF obj.kind = "list" THEN <<91>> \o DumpsItems(obj.items) \o <<93>>
    ELSE IF obj.kind = "dict" THEN <<123>> \o DumpsPairs(obj.items) \o <<125>>
    ELSE DumpsScalar(obj)

(***************************************************************************)
(* json.loads(text): [ok, val]; ok is FALSE where Python raises            *)
(* JSONDecodeError (and for JSON outside the values of this model:         *)
(* floats, booleans, nested containers).                                   *)
(***************************************************************************)
IsJsonWs(c) == c \in {9, 10, 13, 32}
At(t, i) == IF i >= 1 /\ i <= Len(t) THEN t[i] ELSE 0 - 1
ParseFail == [ok |-> FALSE, val |-> PyNone, next |-> 0]

RECURSIVE SkipWs(_, _)
SkipWs(t, i) == IF IsJsonWs(At(t, i)) THEN SkipWs(t, i + 1) ELSE i

IsHex(c) == IsDigit(c) \/ (c >= 97 /\ c <= 102) \/ (c >= 65 /\ c <= 70)
HexValue(c) == IF IsDigit(c) THEN c - 48 ELSE IF c >= 97 THEN c - 87 ELSE c - 55

\* the text of a JSON string whose opening quote is before position i
RECURSIVE ScanString(_, _, _)
ScanString(t, i, acc) ==
    LET c == At(t, i) IN
    IF c < 32 THEN ParseFail
    ELSE IF c = 34 THEN [ok |-> TRUE, val |-> PyStr(acc), next |-> i + 1]
    ELSE IF c # 92 THEN ScanString(t, i + 1, acc \o <<c>>)
    ELSE LET e == At(t, i + 1) IN
         IF e \in {34, 92, 47} THEN ScanString(t, i + 2, acc \o <<e>>)
         ELSE IF e = 110 THEN ScanString(t, i + 2, acc \o <<10>>)
         ELSE IF e = 114 THEN ScanString(t, i + 2, acc \o <<13>>)
         ELSE IF e = 116 THEN ScanString(t, i + 2, acc \o <<9>>)
         ELSE IF e = 98 THEN ScanString(t, i + 2, acc \o <<8>>)
         ELSE IF e = 102 THEN ScanString(t, i + 2, acc \o <<12>>)
         ELSE IF e = 117 /\ \A k \in 2..5 : IsHex(At(t, i + k))
         THEN ScanString(t, i + 6,
                 acc \o <<HexValue(t[i + 2]) * 4096 + HexValue(t[i + 3]) * 256
                          + HexValue(t[i + 4]) * 16 + HexValue(t[i + 5])>>)
         ELSE ParseFail

RECURSIVE DigitsEnd(_, _)
DigitsEnd(t, i) == IF IsDigit(At(t, i)) THEN DigitsEnd(t, i + 1) ELSE i

\* -?(0|[1-9][0-9]*) at position i; a fraction or an exponent is a float
ScanNumber(t, i) ==
    LET neg == At(t, i) = 45
        b == IF neg THEN i + 1 ELSE i
        e == IF At(t, b) = 48 THEN b + 1 ELSE DigitsEnd(t, b)
    IN IF e = b \/ At(t, e) \in {46, 101, 69} THEN ParseFail
       ELSE LET v == DigitsValue(SubSeq(t, b, e - 1), 0) IN
            [ok |-> TRUE, val |-> PyInt(IF neg THEN 0 - v ELSE v), next |-> e]

ScanScalar(t, i) ==
    LET c == At(t, i) IN
    IF c = 34 THEN ScanString(t, i + 1, <<>>)
    ELSE IF c = 110
    THEN IF SubSeq(t, i, i + 3) = <<110, 117, 108, 108>>
         THEN [ok |-> TRUE, val |-> PyNone, next |-> i + 4]
         ELSE ParseFail
    ELSE IF c = 45 \/ IsDigit(c) THEN ScanNumber(t, i)
    ELSE ParseFail

\* the items of an array, the position i being at an item; r is the item
\* scanned there
RECURSIVE ScanItems(_, _, _)
ItemScanned(t, acc, r, j) ==
    IF ~r.ok THEN ParseFail
    ELSE IF At(t, j) = 93
    THEN [ok |-> TRUE, val |-> PyList(acc \o <<r.val>>), next |-> j + 1]
    ELSE IF At(t, j) = 44 THEN ScanItems(t, SkipWs(t, j + 1), acc \o <<r.val>>)
    ELSE ParseFail

ItemAt(t, acc, r) == ItemScanned(t, acc, r, SkipWs(t, r.next))

ScanItems(t, i, acc) == ItemAt(t, acc, ScanScalar(t, i))

\* the pairs of an object, the position i being at a key; a repeated key
\* keeps its first place and takes the last value, as a Python dict does
RECURSIVE PutKey(_, _, _)
PutKey(kvs, k, v) ==
    IF kvs = <<>> THEN <<k, v>>
    ELSE IF kvs[1] = k THEN <<k, v>> \o SubSeq(kvs, 3, Len(kvs))
    ELSE <<kvs[1], kvs[2]>> \o PutKey(SubSeq(kvs, 3, Len(kvs)), k, v)

RECURSIVE ScanPairs(_, _, _)
PairScanned(t, acc, k, r, j) ==
    IF ~r.ok THEN ParseFail
    ELSE IF At(t, j) = 125
    THEN [ok |-> TRUE, val |-> PyDict(PutKey(acc, k.val, r.val)), next |-> j + 1]
    ELSE IF At(t, j) = 44
    THEN ScanPairs(t, SkipWs(t, j + 1), PutKey(acc, k.val, r.val))
    ELSE ParseFail

PairValue(t, acc, k, r) == PairScanned(t, acc, k, r, SkipWs(t, r.next))

PairColon(t, acc, k, c) ==
    IF At(t, c) # 58 THEN ParseFail
    ELSE PairValue(t, acc, k, ScanScalar(t, SkipWs(t, c + 1)))

PairKey(t, acc, k) ==
    IF ~k.ok THEN ParseFail ELSE PairColon(t, acc, k, SkipWs(t, k.next))

ScanPairs(t, i, acc) ==
    IF At(t, i) # 34 THEN ParseFail
    ELSE PairKey(t, acc, ScanString(t, i + 1, <<>>))

ScanArray(t, j) ==
    IF At(t, j) = 93 THEN [ok |-> TRUE, val |-> PyList(<<>>), next |-> j + 1]
    ELSE ScanItems(t, j, <<>>)

ScanObject(t, j) ==
    IF At(t, j) = 125 THEN [ok |-> TRUE, val |-> PyDict(<<>>), next |-> j + 1]
    ELSE ScanPairs(t, j, <<>>)

ScanValue(t, i) ==
    IF At(t, i) = 91 THEN ScanArray(t, SkipWs(t, i + 1))
    ELSE IF At(t, i) = 123 THEN ScanObject(t, SkipWs(t, i + 1))
    ELSE ScanScalar(t, i)

LoadsEnd(text, r) ==
    IF r.ok /\ SkipWs(text, r.next) = Len(text) + 1
    THEN [ok |-> TRUE, val |-> r.val]
    ELSE [ok |-> FALSE, val |-> PyNone]

json_loads(text) == LoadsEnd(text, ScanValue(text, SkipWs(text, 1)))

(***************************************************************************)
(* State.                                                                  *)
(*                                                                         *)
(* The framed-connection scenario: one endpoint sends frames into a byte   *)
(* stream, the peer calls receive() on it.                                 *)
(*   sock_buf     bytes written to the transport and not yet read          *)
(*   sock_sent    every byte written so far, in order                      *)
(*   sock_closed  the writing end was closed                               *)
(*   snd_pc       where the sending call stands                            *)
(*   snd_calls    the send calls made so far                               *)
(*   rcv_pc       where receive() stands                                   *)
(*   rcv_data     receive_length's data                                    *)
(*   rcv_want     receive_length's length                                  *)
(*   rcv_type     receive's send_type                                      *)
(*   rcv_used     bytes the current receive() has taken from the stream    *)
(*   rcv_zero     zero-byte reads the current receive_length has seen      *)
(*   rcv_results  the outcome of every receive() call that has ended       *)
(***************************************************************************)
VARIABLES sock_buf, sock_sent, sock_closed, snd_pc, snd_calls,
          rcv_pc, rcv_data, rcv_want, rcv_type, rcv_used, rcv_zero, rcv_results

conn_vars ==
    <<sock_buf, sock_sent, sock_closed, snd_pc, snd_calls,
      rcv_pc, rcv_data, rcv_want, rcv_type, rcv_used, rcv_zero, rcv_results>>

(***************************************************************************)
(* The relays: a SimpleConnectionMasterThread and a                        *)
(* SimpleConnectionSlaveThread, each on its end of one socket pair.        *)
(*   wire_ms, wire_sm   bytes in flight master -> slave, slave -> master   *)
(*   m_pc, s_pc         where each thread's run() stands                   *)
(*   m_running, ...     the attributes running, input_queue, output_queue  *)
(*   m_obj, s_obj       run's local command/response (obj/response_object) *)
(*   m_stopped, ...     the application has cleared running                *)
(*   wire_broken        the transport failed: sock.recv and sock.sendall   *)
(*                      raise from now on                                  *)
(* History, for stating the properties:                                    *)
(*   m_sent, m_rcvd, s_sent, s_rcvd   frames each relay has started to     *)
(*                                    send and has received                *)
(*   cmds_put, cmds_got    arguments of put_command, results of            *)
(*                         get_command                                     *)
(*   resp_put, resp_got    arguments of put_response, results of           *)
(*                         get_response                                    *)
(*   resp_for              per put_response, the commands got before it    *)
(*   would_block           per get(block=False) that raised queue.Empty,   *)
(*                         the method and the values it had got before     *)
(***************************************************************************)
VARIABLES wire_ms, wire_sm,
          m_pc, m_running, m_input_queue, m_output_queue, m_obj,
          m_stopped,
          s_pc, s_running, s_input_queue, s_output_queue, s_obj,
          s_stopped,
          m_sent, m_rcvd, s_sent, s_rcvd,
          cmds_put, cmds_got, resp_put, resp_got, resp_for,
          wire_broken, would_block

master_vars ==
    <<m_pc, m_running, m_input_queue, m_output_queue, m_obj,
      m_stopped, m_sent, m_rcvd>>

slave_vars ==
    <<s_pc, s_running, s_input_queue, s_output_queue, s_obj,
      s_stopped, s_sent, s_rcvd>>

history_vars == <<cmds_put, cmds_got, resp_put, resp_got, resp_for>>

relay_vars ==
    <<wire_ms, wire_sm, master_vars, slave_vars, history_vars, wire_broken,
      would_block>>

vars == <<conn_vars, relay_vars>>

\* the largest length the 9-digit field holds
MaxFieldLength == (10 ^ (HEADER_LENGTH - 1)) - 1

\* the code points the texts of the scenarios are made of: a and e-acute
\* (one byte and two bytes in UTF-8)
Chars == {97, 233}
Texts == UNION {[1..n -> Chars] : n \in 0..MaxLen}

\* the objects the scenarios pass to send_json and send:
\* None, -12, "", "e-acute and a quote", [2, 3], {"a": 5, "e-acute": None}
Objs ==
    {PyNone, PyInt(0 - 12), PyStr(<<>>), PyStr(<<233, 34>>),
     PyList(<<PyInt(2), PyInt(3)>>),
     PyDict(<<PyStr(<<97>>), PyInt(5), PyStr(<<233>>), PyNone>>)}

\* byte lengths at the edge of the 9-digit field, for payloads too long to
\* be written out in the model
BigLengths == {MaxFieldLength, MaxFieldLength + 1}

\* the frame a peer writes that tags the JSON text of obj as JSON
JsonFrame(obj) ==
    <<JSON_TYPE>>
        \o encode(zfill(str(Len(encode(json_dumps(obj)))), HEADER_LENGTH - 1))
        \o encode(json_dumps(obj))

\* what a peer that is not this code may write: JSON frames, a frame with
\* an unknown tag, a JSON frame whose text is not JSON, headers whose length
\* field is not 9 digits, a payload that is not UTF-8, and two frames in
\* one write
RawFrames ==
    {JsonFrame(PyStr(<<233, 34>>)),
     JsonFrame(PyDict(<<PyStr(<<97>>), PyInt(5), PyStr(<<233>>), PyNone>>)),
     <<120, 48, 48, 48, 48, 48, 48, 48, 48, 50, 104, 105>>,
     <<JSON_TYPE, 48, 48, 48, 48, 48, 48, 48, 48, 50, 104, 105>>,
     <<STRING_TYPE, 43, 48, 48, 48, 48, 48, 48, 48, 50, 104, 105>>,
     <<STRING_TYPE, 32, 32, 32, 32, 32, 32, 32, 32, 50, 104, 105>>,
     <<STRING_TYPE, 48, 48, 48, 48, 48, 48, 48, 120, 50, 104, 105>>,
     <<STRING_TYPE, 48, 48, 48, 48, 48, 48, 48, 48, 50, 195, 40>>,
     <<STRING_TYPE, 48, 48, 48, 48, 48, 48, 48, 48, 50, 104, 105,
       STRING_TYPE, 48, 48, 48, 48, 48, 48, 48, 48, 48>>}

ConnInit ==
    /\ sock_buf = <<>>
    /\ sock_sent = <<>>
    /\ sock_closed = FALSE
    /\ snd_pc = "idle"
    /\ snd_calls = <<>>
    /\ rcv_pc = "idle"
    /\ rcv_data = <<>>
    /\ rcv_want = 0
    /\ rcv_type = 0
    /\ rcv_used = 0
    /\ rcv_zero = 0
    /\ rcv_results = <<>>

(***************************************************************************)
(* SimpleSocketConnection: the sending side.                               *)
(***************************************************************************)
\* sock.sendall(bytes_string): the whole string enters the stream
sendall_bytes(bytes_string) ==
    /\ sock_buf' = sock_buf \o bytes_string
    /\ sock_sent' = sock_sent \o bytes_string

\* header_bytes without the zero padding of the length
header_bytes_unpadded(send_type, length) == <<send_type>> \o encode(str(length))

\* _initiate's header_bytes
header_bytes(send_type, length) ==
    <<send_type>> \o encode(zfill(str(length), HEADER_LENGTH - 1))

\* the length send_string hands to _initiate
send_string_length(string) == _length(string)

\* the type send_string hands to _initiate, whoever called it
send_string_type(op) == STRING_TYPE

\* send_string up to the end of _initiate: the header is on the stream
initiate(op, obj, string) ==
    /\ ~sock_closed
    /\ Len(snd_calls) < MaxFrames
    /\ sendall_bytes(header_bytes(send_string_type(op), send_string_length(string)))
    /\ snd_calls' = Append(snd_calls,
            [op |-> op, obj |-> obj, string |-> string, big |-> 0,
             start |-> Len(sock_sent), stage |-> "initiated"])
    /\ snd_pc' = "initiated"
    /\ UNCHANGED <<sock_closed, rcv_pc, rcv_data, rcv_want, rcv_type, rcv_used,
                   rcv_zero, rcv_results>>
    /\ UNCHANGED relay_vars

send_string ==
    /\ snd_pc = "idle"
    /\ \E string \in Texts : initiate("send_string", PyNone, string)

send_json ==
    /\ snd_pc = "idle"
    /\ \E obj \in Objs : initiate("send_json", obj, json_dumps(obj))

send ==
    /\ snd_pc = "idle"
    /\ \E obj \in Objs : initiate("send", obj, json_dumps(obj))

\* send_string's last line: the payload follows the header
sendall_string ==
    /\ snd_pc = "initiated"
    /\ ~sock_closed
    /\ sendall_bytes(encode(snd_calls[Len(snd_calls)].string))
    /\ snd_calls' = [snd_calls EXCEPT ![Len(snd_calls)].stage = "sent"]
    /\ snd_pc' = "idle"
    /\ UNCHANGED <<sock_closed, rcv_pc, rcv_data, rcv_want, rcv_type, rcv_used,
                   rcv_zero, rcv_results>>
    /\ UNCHANGED relay_vars

\* send_string of a string of `length` bytes, too long to write out here:
\* _initiate writes its header and the payload write then stays in progress
send_string_big ==
    \E length \in BigLengths :
        /\ snd_pc = "idle"
        /\ ~sock_closed
        /\ Len(snd_calls) < MaxFrames
        /\ sendall_bytes(header_bytes(send_string_type("send_string"), length))
        /\ snd_calls' = Append(snd_calls,
                [op |-> "send_string", obj |-> PyNone, string |-> <<>>,
                 big |-> length, start |-> Len(sock_sent), stage |-> "initiated"])
        /\ snd_pc' = "payload_in_progress"
        /\ UNCHANGED <<sock_closed, rcv_pc, rcv_data, rcv_want, rcv_type, rcv_used,
                       rcv_zero, rcv_results>>
        /\ UNCHANGED relay_vars

\* a peer that is not this code writes a frame of its own
peer_write ==
    \E frame \in RawFrames :
        /\ snd_pc = "idle"
        /\ ~sock_closed
        /\ Len(snd_calls) < MaxFrames
        /\ sendall_bytes(frame)
        /\ snd_calls' = Append(snd_calls,
                [op |-> "raw", obj |-> PyNone, string |-> <<>>, big |-> 0,
                 start |-> Len(sock_sent), stage |-> "sent"])
        /\ UNCHANGED <<sock_closed, snd_pc, rcv_pc, rcv_data, rcv_want, rcv_type,
                       rcv_used, rcv_zero, rcv_results>>
        /\ UNCHANGED relay_vars

\* the writing end closes the transport, between frames or inside one
peer_close ==
    /\ ~sock_closed
    /\ sock_closed' = TRUE
    /\ UNCHANGED <<sock_buf, sock_sent, snd_pc, snd_calls, rcv_pc, rcv_data,
                   rcv_want, rcv_type, rcv_used, rcv_zero, rcv_results>>
    /\ UNCHANGED relay_vars

(***************************************************************************)
(* SimpleSocketConnection: receive().                                      *)
(***************************************************************************)
\* receive() is called: _wait calls receive_length(HEADER_LENGTH)
receive_call ==
    /\ rcv_pc = "idle"
    /\ Len(rcv_results) < MaxFrames
    /\ rcv_pc' = "header"
    /\ rcv_data' = <<>>
    /\ rcv_want' = HEADER_LENGTH
    /\ rcv_used' = 0
    /\ rcv_zero' = 0
    /\ UNCHANGED <<sock_buf, sock_sent, sock_closed, snd_pc, snd_calls, rcv_type,
                   rcv_results>>
    /\ UNCHANGED relay_vars

\* recv_request asking for the whole length on every turn of the loop
recv_request_whole == rcv_want

\* the size receive_length asks sock.recv for
recv_request == rcv_want - Len(rcv_data)

\* one turn of receive_length's loop with data on the stream: sock.recv
\* returns between one byte and the bytes asked for
sock_recv ==
    /\ rcv_pc \in {"header", "payload"}
    /\ Len(rcv_data) < rcv_want
    /\ sock_buf # <<>>
    /\ \E k \in 1..Len(sock_buf) :
          /\ k <= recv_request
          /\ rcv_data' = rcv_data \o SubSeq(sock_buf, 1, k)
          /\ sock_buf' = SubSeq(sock_buf, k + 1, Len(sock_buf))
          /\ rcv_used' = rcv_used + k
    /\ UNCHANGED <<sock_sent, sock_closed, snd_pc, snd_calls, rcv_pc, rcv_want,
                   rcv_type, rcv_zero, rcv_results>>
    /\ UNCHANGED relay_vars

\* one turn of receive_length's loop on a closed, drained stream: sock.recv
\* returns b'', data stays as it is and the loop goes on
sock_recv_zero ==
    /\ rcv_pc \in {"header", "payload"}
    /\ Len(rcv_data) < rcv_want
    /\ sock_buf = <<>>
    /\ sock_closed
    /\ rcv_zero < MaxZeroReads
    /\ rcv_zero' = rcv_zero + 1
    /\ rcv_data' = rcv_data \o <<>>
    /\ UNCHANGED <<sock_buf, sock_sent, sock_closed, snd_pc, snd_calls, rcv_pc,
                   rcv_want, rcv_type, rcv_used, rcv_results>>
    /\ UNCHANGED relay_vars

\* _wait after receive_length(HEADER_LENGTH) returned header:
\* [error, type, length], error naming what _wait raises
WaitLength(header, n) ==
    IF ~n.ok THEN [error |-> "ValueError", type |-> 0, length |-> 0]
    ELSE [error |-> "", type |-> header[1], length |-> n.val]

WaitDecoded(header, d) ==
    IF ~d.ok THEN [error |-> "UnicodeDecodeError", type |-> 0, length |-> 0]
    ELSE WaitLength(header, int(d.text))

wait_result(header) == WaitDecoded(header, decode(SubSeq(header, 2, Len(header))))

\* _wait returns and receive calls receive_length(length), or _wait raises
wait_return ==
    /\ rcv_pc = "header"
    /\ Len(rcv_data) >= rcv_want
    /\ \E w \in {wait_result(rcv_data)} :
       IF w.error # ""
       THEN /\ rcv_pc' = "raised"
            /\ rcv_results' = Append(rcv_results,
                  [status |-> "raised", error |-> w.error, val |-> PyNone,
                   used |-> rcv_used])
            /\ UNCHANGED <<rcv_data, rcv_want, rcv_type>>
       ELSE /\ rcv_pc' = "payload"
            /\ rcv_data' = <<>>
            /\ rcv_want' = w.length
            /\ rcv_type' = w.type
            /\ UNCHANGED rcv_results
    /\ UNCHANGED <<sock_buf, sock_sent, sock_closed, snd_pc, snd_calls, rcv_used,
                   rcv_zero>>
    /\ UNCHANGED relay_vars

\* receive after receive_length(length) returned data: [error, val], error
\* naming what receive raises
ReceiveLoaded(j) ==
    IF ~j.ok THEN [error |-> "JSONDecodeError", val |-> PyNone]
    ELSE [error |-> "", val |-> j.val]

ReceiveDecoded(send_type, d) ==
    IF send_type = STRING_TYPE
    THEN IF d.ok THEN [error |-> "", val |-> PyStr(d.text)]
         ELSE [error |-> "UnicodeDecodeError", val |-> PyNone]
    ELSE IF send_type = JSON_TYPE
    THEN IF d.ok THEN ReceiveLoaded(json_loads(d.text))
         ELSE [error |-> "UnicodeDecodeError", val |-> PyNone]
    ELSE [error |-> "", val |-> PyNone]

receive_result(send_type, data) == ReceiveDecoded(send_type, decode(data))

\* receive returns its value (None for a type it does not know) or raises
receive_return ==
    /\ rcv_pc = "payload"
    /\ Len(rcv_data) >= rcv_want
    /\ \E r \in {receive_result(rcv_type, rcv_data)} :
       /\ rcv_results' = Append(rcv_results,
             [status |-> IF r.error = "" THEN "returned" ELSE "raised",
              error |-> r.error, val |-> r.val, used |-> rcv_used])
       /\ rcv_pc' = IF r.error = "" THEN "idle" ELSE "raised"
    /\ UNCHANGED <<sock_buf, sock_sent, sock_closed, snd_pc, snd_calls, rcv_data,
                   rcv_want, rcv_type, rcv_used, rcv_zero>>
    /\ UNCHANGED relay_vars

NextConn ==
    \/ send_string
    \/ send_json
    \/ send
    \/ sendall_string
    \/ send_string_big
    \/ peer_write
    \/ peer_close
    \/ receive_call
    \/ sock_recv
    \/ sock_recv_zero
    \/ wait_return
    \/ receive_return

(***************************************************************************)
(* The relays' scenario.                                                   *)
(***************************************************************************)
\* the commands the master application chooses from: "a" and {"a": 5}
Cmds == {PyStr(<<97>>), PyDict(<<PyStr(<<97>>), PyInt(5)>>)}

\* the n-th reply of the slave application: a text of n e-acutes for an odd
\* n and [2, n] for an even n, so that no two replies are equal
Reply(n) ==
    IF n % 2 = 1 THEN PyStr([i \in 1..n |-> 233])
    ELSE PyList(<<PyInt(2), PyInt(n)>>)

\* the replies the slave application puts
Replies == {Reply(n) : n \in 1..MaxResp}

RelayInit ==
    /\ wire_ms = <<>>
    /\ wire_sm = <<>>
    /\ m_pc = "new"
    /\ m_running = FALSE
    /\ m_input_queue = <<>>
    /\ m_output_queue = <<>>
    /\ m_obj = PyNone
    /\ m_stopped = FALSE
    /\ s_pc = "new"
    /\ s_running = FALSE
    /\ s_input_queue = <<>>
    /\ s_output_queue = <<>>
    /\ s_obj = PyNone
    /\ s_stopped = FALSE
    /\ m_sent = 0
    /\ m_rcvd = 0
    /\ s_sent = 0
    /\ s_rcvd = 0
    /\ cmds_put = <<>>
    /\ cmds_got = <<>>
    /\ resp_put = <<>>
    /\ resp_got = <<>>
    /\ resp_for = <<>>
    /\ wire_broken = FALSE
    /\ would_block = <<>>

\* queue.Queue: put adds at the tail, get takes the head
queue_put(q, obj) == Append(q, obj)
queue_newest(q) == q[Len(q)]
queue_head(q) == Head(q)
queue_rest(q) == Tail(q)

\* connection.send(obj): the bytes send_json, send_string, _initiate and
\* sendall_string write, header first
SendString(op, string) ==
    header_bytes(send_string_type(op), send_string_length(string)) \o encode(string)

send_frame(obj) == SendString("send", json_dumps(obj))

\* connection.receive() on a stream that holds `bytes`: whether it can end
\* (by returning or by raising) without waiting for more
ReadyAfterWait(bytes, w) == w.error # "" \/ Len(bytes) >= HEADER_LENGTH + w.length

receive_ready(bytes) ==
    /\ Len(bytes) >= HEADER_LENGTH
    /\ ReadyAfterWait(bytes, wait_result(SubSeq(bytes, 1, HEADER_LENGTH)))

\* connection.receive() on such a stream: [error, val, used], used being the
\* bytes it takes from the stream
ReceivedPayload(r, used) == [error |-> r.error, val |-> r.val, used |-> used]

ReceiveLength(bytes, send_type, n) ==
    ReceivedPayload(
        receive_result(send_type, SubSeq(bytes, HEADER_LENGTH + 1, HEADER_LENGTH + n)),
        HEADER_LENGTH + n)

ReceiveAfterWait(bytes, w) ==
    IF w.error # ""
    THEN [error |-> w.error, val |-> PyNone, used |-> HEADER_LENGTH]
    ELSE ReceiveLength(bytes, w.type, IF w.length > 0 THEN w.length ELSE 0)

receive_from(bytes) ==
    ReceiveAfterWait(bytes, wait_result(SubSeq(bytes, 1, HEADER_LENGTH)))

\* send_frame and receive_from tabulated for the values the applications
\* put and the frames they make, each computed once
send_frame_of == [obj \in Cmds \cup Replies |-> send_frame(obj)]

receive_from_of ==
    [bytes \in {send_frame_of[obj] : obj \in Cmds \cup Replies} |->
        receive_from(bytes)]

\* self.connection.send(obj): the bytes it writes
connection_send(obj) ==
    IF obj \in DOMAIN send_frame_of THEN send_frame_of[obj] ELSE send_frame(obj)

\* self.connection.receive() on a stream that holds `bytes`: whether it can
\* end, and how
connection_receive_ready(bytes) ==
    bytes \in DOMAIN receive_from_of \/ receive_ready(bytes)

connection_receive(bytes) ==
    IF bytes \in DOMAIN receive_from_of THEN receive_from_of[bytes]
    ELSE receive_from(bytes)

(***************************************************************************)
(* SimpleConnectionMasterThread.                                           *)
(***************************************************************************)
\* the application calls start()
m_start ==
    /\ m_pc = "new"
    /\ m_pc' = "run"
    /\ UNCHANGED <<m_running, m_input_queue, m_output_queue, m_obj,
                   m_stopped, m_sent, m_rcvd>>
    /\ UNCHANGED <<conn_vars, wire_broken, would_block,
                   wire_ms, wire_sm, slave_vars, history_vars>>

\* run: self.running = True
m_run ==
    /\ m_pc = "run"
    /\ m_running' = TRUE
    /\ m_pc' = "loop"
    /\ UNCHANGED <<m_input_queue, m_output_queue, m_obj,
                   m_stopped, m_sent, m_rcvd>>
    /\ UNCHANGED <<conn_vars, wire_broken, would_block,
                   wire_ms, wire_sm, slave_vars, history_vars>>

\* run: while self.running
m_loop ==
    /\ m_pc = "loop"
    /\ m_pc' = IF m_running THEN "wait_output" ELSE "done"
    /\ UNCHANGED <<m_running, m_input_queue, m_output_queue, m_obj,
                   m_stopped, m_sent, m_rcvd>>
    /\ UNCHANGED <<conn_vars, wire_broken, would_block,
                   wire_ms, wire_sm, slave_vars, history_vars>>

\* m_wait_output waiting on input_queue, as _wait_input does
m_wait_input ==
    /\ m_pc = "wait_output"
    /\ m_input_queue # <<>>
    /\ m_pc' = "get"
    /\ UNCHANGED <<m_running, m_input_queue, m_output_queue, m_obj,
                   m_stopped, m_sent, m_rcvd>>
    /\ UNCHANGED <<conn_vars, wire_broken, would_block,
                   wire_ms, wire_sm, slave_vars, history_vars>>

\* _wait_output returns once output_queue.empty() is false
m_wait_output ==
    /\ m_pc = "wait_output"
    /\ m_output_queue # <<>>
    /\ m_pc' = "get"
    /\ UNCHANGED <<m_running, m_input_queue, m_output_queue, m_obj,
                   m_stopped, m_sent, m_rcvd>>
    /\ UNCHANGED <<conn_vars, wire_broken, would_block,
                   wire_ms, wire_sm, slave_vars, history_vars>>

\* command = self.output_queue.get()
m_get ==
    /\ m_pc = "get"
    /\ m_output_queue # <<>>
    /\ m_obj' = queue_head(m_output_queue)
    /\ m_output_queue' = queue_rest(m_output_queue)
    /\ m_pc' = "send"
    /\ UNCHANGED <<m_running, m_input_queue, m_stopped, m_sent,
                   m_rcvd>>
    /\ UNCHANGED <<conn_vars, wire_broken, would_block,
                   wire_ms, wire_sm, slave_vars, history_vars>>

\* m_send with run going back to the head of its loop, the receive left out
m_send_without_receive ==
    /\ m_pc = "send"
    /\ ~wire_broken
    /\ wire_ms' = wire_ms \o connection_send(m_obj)
    /\ m_sent' = m_sent + 1
    /\ m_pc' = "loop"
    /\ UNCHANGED <<m_running, m_input_queue, m_output_queue, m_obj, m_stopped,
                   m_rcvd>>
    /\ UNCHANGED <<conn_vars, wire_broken, would_block,
                   wire_sm, slave_vars, history_vars>>

\* self.connection.send(command) on a working transport
m_send ==
    /\ m_pc = "send"
    /\ ~wire_broken
    /\ wire_ms' = wire_ms \o connection_send(m_obj)
    /\ m_sent' = m_sent + 1
    /\ m_pc' = "receive"
    /\ UNCHANGED <<m_running, m_input_queue, m_output_queue, m_obj, m_stopped,
                   m_rcvd>>
    /\ UNCHANGED <<conn_vars, wire_broken, would_block,
                   wire_sm, slave_vars, history_vars>>

\* response = self.connection.receive(), which blocks until the stream holds
\* the header and the payload the header announces
m_receive ==
    /\ m_pc = "receive"
    /\ ~wire_broken
    /\ connection_receive_ready(wire_sm)
    /\ \E r \in {connection_receive(wire_sm)} :
       /\ m_pc' = IF r.error = "" THEN "put" ELSE "raised"
       /\ m_obj' = r.val
       /\ m_rcvd' = IF r.error = "" THEN m_rcvd + 1 ELSE m_rcvd
       /\ wire_sm' = SubSeq(wire_sm, r.used + 1, Len(wire_sm))
    /\ UNCHANGED <<m_running, m_input_queue, m_output_queue, m_stopped, m_sent>>
    /\ UNCHANGED <<conn_vars, wire_broken, would_block,
                   wire_ms, slave_vars, history_vars>>

\* self.input_queue.put(response)
m_put ==
    /\ m_pc = "put"
    /\ m_input_queue' = queue_put(m_input_queue, m_obj)
    /\ m_pc' = "loop"
    /\ UNCHANGED <<m_running, m_output_queue, m_obj, m_stopped,
                   m_sent, m_rcvd>>
    /\ UNCHANGED <<conn_vars, wire_broken, would_block,
                   wire_ms, wire_sm, slave_vars, history_vars>>

\* put_command sending the command over the connection itself
put_command_direct ==
    \E command \in Cmds :
        /\ Len(cmds_put) < MaxCmds
        /\ wire_ms' = wire_ms \o connection_send(command)
        /\ cmds_put' = Append(cmds_put, command)
        /\ UNCHANGED <<m_pc, m_running, m_input_queue, m_output_queue, m_obj,
                       m_stopped, m_sent, m_rcvd>>
        /\ UNCHANGED <<conn_vars, wire_broken, would_block,
                       wire_sm, slave_vars, cmds_got, resp_put,
                       resp_got, resp_for>>

\* the application: put_command(command)
put_command ==
    \E command \in Cmds :
        /\ Len(cmds_put) < MaxCmds
        /\ m_output_queue' = queue_put(m_output_queue, command)
        /\ cmds_put' = Append(cmds_put, command)
        /\ UNCHANGED <<m_pc, m_running, m_input_queue, m_obj,
                       m_stopped, m_sent, m_rcvd>>
        /\ UNCHANGED <<conn_vars, wire_broken, would_block,
                       wire_ms, wire_sm, slave_vars, cmds_got, resp_put,
                       resp_got, resp_for>>

\* get_response taking its value from output_queue
get_response_from_output ==
    /\ m_output_queue # <<>>
    /\ resp_got' = Append(resp_got, queue_head(m_output_queue))
    /\ m_output_queue' = queue_rest(m_output_queue)
    /\ UNCHANGED <<m_pc, m_running, m_input_queue, m_obj,
                   m_stopped, m_sent, m_rcvd>>
    /\ UNCHANGED <<conn_vars, wire_broken, would_block,
                   wire_ms, wire_sm, slave_vars, cmds_put, cmds_got,
                   resp_put, resp_for>>

\* the application: get_response(), returning once input_queue holds a value
get_response ==
    /\ m_input_queue # <<>>
    /\ resp_got' = Append(resp_got, queue_head(m_input_queue))
    /\ m_input_queue' = queue_rest(m_input_queue)
    /\ UNCHANGED <<m_pc, m_running, m_output_queue, m_obj,
                   m_stopped, m_sent, m_rcvd>>
    /\ UNCHANGED <<conn_vars, wire_broken, would_block,
                   wire_ms, wire_sm, slave_vars, cmds_put, cmds_got,
                   resp_put, resp_for>>

\* the application clears the started relay's running flag
m_stop ==
    /\ m_pc # "new"
    /\ ~m_stopped
    /\ m_running' = FALSE
    /\ m_stopped' = TRUE
    /\ UNCHANGED <<m_pc, m_input_queue, m_output_queue, m_obj,
                   m_sent, m_rcvd>>
    /\ UNCHANGED <<conn_vars, wire_broken, would_block,
                   wire_ms, wire_sm, slave_vars, history_vars>>

(***************************************************************************)
(* SimpleConnectionSlaveThread.                                            *)
(***************************************************************************)
\* the application calls start()
s_start ==
    /\ s_pc = "new"
    /\ s_pc' = "run"
    /\ UNCHANGED <<s_running, s_input_queue, s_output_queue, s_obj,
                   s_stopped, s_sent, s_rcvd>>
    /\ UNCHANGED <<conn_vars, wire_broken, would_block,
                   wire_ms, wire_sm, master_vars, history_vars>>

\* run: self.running = True
s_run ==
    /\ s_pc = "run"
    /\ s_running' = TRUE
    /\ s_pc' = "loop"
    /\ UNCHANGED <<s_input_queue, s_output_queue, s_obj,
                   s_stopped, s_sent, s_rcvd>>
    /\ UNCHANGED <<conn_vars, wire_broken, would_block,
                   wire_ms, wire_sm, master_vars, history_vars>>

\* s_loop with the body of the loop starting at _wait_output, as the master's
\* does
s_loop_like_master ==
    /\ s_pc = "loop"
    /\ s_pc' = IF s_running THEN "wait_output" ELSE "done"
    /\ UNCHANGED <<s_running, s_input_queue, s_output_queue, s_obj,
                   s_stopped, s_sent, s_rcvd>>
    /\ UNCHANGED <<conn_vars, wire_broken, would_block,
                   wire_ms, wire_sm, master_vars, history_vars>>

\* run: while self.running
s_loop ==
    /\ s_pc = "loop"
    /\ s_pc' = IF s_running THEN "receive" ELSE "done"
    /\ UNCHANGED <<s_running, s_input_queue, s_output_queue, s_obj,
                   s_stopped, s_sent, s_rcvd>>
    /\ UNCHANGED <<conn_vars, wire_broken, would_block,
                   wire_ms, wire_sm, master_vars, history_vars>>

\* obj = self.connection.receive(), which blocks until the stream holds the
\* header and the payload the header announces
s_receive ==
    /\ s_pc = "receive"
    /\ ~wire_broken
    /\ connection_receive_ready(wire_ms)
    /\ \E r \in {connection_receive(wire_ms)} :
       /\ s_pc' = IF r.error = "" THEN "put" ELSE "raised"
       /\ s_obj' = r.val
       /\ s_rcvd' = IF r.error = "" THEN s_rcvd + 1 ELSE s_rcvd
       /\ wire_ms' = SubSeq(wire_ms, r.used + 1, Len(wire_ms))
    /\ UNCHANGED <<s_running, s_input_queue, s_output_queue, s_stopped, s_sent>>
    /\ UNCHANGED <<conn_vars, wire_broken, would_block,
                   wire_sm, master_vars, history_vars>>

\* self.input_queue.put(obj)
s_put ==
    /\ s_pc = "put"
    /\ s_input_queue' = queue_put(s_input_queue, s_obj)
    /\ s_pc' = "wait_output"
    /\ UNCHANGED <<s_running, s_output_queue, s_obj, s_stopped,
                   s_sent, s_rcvd>>
    /\ UNCHANGED <<conn_vars, wire_broken, would_block,
                   wire_ms, wire_sm, master_vars, history_vars>>

\* _wait_output returns once output_queue.empty() is false
s_wait_output ==
    /\ s_pc = "wait_output"
    /\ s_output_queue # <<>>
    /\ s_pc' = "get"
    /\ UNCHANGED <<s_running, s_input_queue, s_output_queue, s_obj,
                   s_stopped, s_sent, s_rcvd>>
    /\ UNCHANGED <<conn_vars, wire_broken, would_block,
                   wire_ms, wire_sm, master_vars, history_vars>>

\* response_object = self.output_queue.get()
s_get ==
    /\ s_pc = "get"
    /\ s_output_queue # <<>>
    /\ s_obj' = queue_head(s_output_queue)
    /\ s_output_queue' = queue_rest(s_output_queue)
    /\ s_pc' = "send"
    /\ UNCHANGED <<s_running, s_input_queue, s_stopped, s_sent,
                   s_rcvd>>
    /\ UNCHANGED <<conn_vars, wire_broken, would_block,
                   wire_ms, wire_sm, master_vars, history_vars>>

\* s_send with run going on to the next queued reply, not to the head of its
\* loop and the next receive
s_send_without_receive ==
    /\ s_pc = "send"
    /\ ~wire_broken
    /\ wire_sm' = wire_sm \o connection_send(s_obj)
    /\ s_sent' = s_sent + 1
    /\ s_pc' = "wait_output"
    /\ UNCHANGED <<s_running, s_input_queue, s_output_queue, s_obj, s_stopped,
                   s_rcvd>>
    /\ UNCHANGED <<conn_vars, wire_broken, would_block,
                   wire_ms, master_vars, history_vars>>

\* self.connection.send(response_object) on a working transport
s_send ==
    /\ s_pc = "send"
    /\ ~wire_broken
    /\ wire_sm' = wire_sm \o connection_send(s_obj)
    /\ s_sent' = s_sent + 1
    /\ s_pc' = "loop"
    /\ UNCHANGED <<s_running, s_input_queue, s_output_queue, s_obj, s_stopped,
                   s_rcvd>>
    /\ UNCHANGED <<conn_vars, wire_broken, would_block,
                   wire_ms, master_vars, history_vars>>

\* the application: get_command(), returning once input_queue holds a value
get_command ==
    /\ s_input_queue # <<>>
    /\ cmds_got' = Append(cmds_got, queue_head(s_input_queue))
    /\ s_input_queue' = queue_rest(s_input_queue)
    /\ UNCHANGED <<s_pc, s_running, s_output_queue, s_obj,
                   s_stopped, s_sent, s_rcvd>>
    /\ UNCHANGED <<conn_vars, wire_broken, would_block,
                   wire_ms, wire_sm, master_vars, cmds_put, resp_put,
                   resp_got, resp_for>>

\* the application: put_response(obj), at any time
put_response ==
    \E obj \in {Reply(Len(resp_put) + 1)} :
        /\ Len(resp_put) < MaxResp
        /\ s_output_queue' = queue_put(s_output_queue, obj)
        /\ resp_put' = Append(resp_put, obj)
        /\ resp_for' = Append(resp_for, Len(cmds_got))
        /\ UNCHANGED <<s_pc, s_running, s_input_queue, s_obj,
                       s_stopped, s_sent, s_rcvd>>
        /\ UNCHANGED <<conn_vars, wire_broken, would_block,
                       wire_ms, wire_sm, master_vars, cmds_put, cmds_got,
                       resp_got>>

\* the application clears the started relay's running flag
s_stop ==
    /\ s_pc # "new"
    /\ ~s_stopped
    /\ s_running' = FALSE
    /\ s_stopped' = TRUE
    /\ UNCHANGED <<s_pc, s_input_queue, s_output_queue, s_obj,
                   s_sent, s_rcvd>>
    /\ UNCHANGED <<conn_vars, wire_broken, would_block,
                   wire_ms, wire_sm, master_vars, history_vars>>

\* the slave application that answers what it got: put_response(obj), called
\* when it has got a command it has not answered yet
put_response_once ==
    /\ Len(resp_put) < Len(cmds_got)
    /\ put_response

(***************************************************************************)
(* The application methods called with blocking=False.                     *)
(***************************************************************************)
\* get_command_nowait returning None where the queue is empty
get_command_nowait_none ==
    IF s_input_queue # <<>>
    THEN get_command
    ELSE /\ Len(would_block) < MaxWouldBlock
         /\ cmds_got' = Append(cmds_got, PyNone)
         /\ UNCHANGED <<s_pc, s_running, s_input_queue, s_output_queue, s_obj,
                        s_stopped, s_sent, s_rcvd>>
         /\ UNCHANGED <<conn_vars, wire_broken, would_block, wire_ms, wire_sm,
                        master_vars, cmds_put, resp_put, resp_got, resp_for>>

\* get_command(blocking=False): input_queue.get(block=False) returns the head
\* of the queue, or raises queue.Empty at once where the queue is empty
get_command_nowait ==
    IF s_input_queue # <<>>
    THEN get_command
    ELSE /\ Len(would_block) < MaxWouldBlock
         /\ would_block' = Append(would_block,
                [call |-> "get_command", got |-> Len(cmds_got)])
         /\ UNCHANGED <<conn_vars, wire_broken, wire_ms, wire_sm, master_vars,
                        slave_vars, history_vars>>

\* get_response(blocking=False)
get_response_nowait ==
    IF m_input_queue # <<>>
    THEN get_response
    ELSE /\ Len(would_block) < MaxWouldBlock
         /\ would_block' = Append(would_block,
                [call |-> "get_response", got |-> Len(resp_got)])
         /\ UNCHANGED <<conn_vars, wire_broken, wire_ms, wire_sm, master_vars,
                        slave_vars, history_vars>>

(***************************************************************************)
(* A transport that fails, and the relays on it.                           *)
(***************************************************************************)
\* the transport fails (the connection is reset): from now on sock.recv and
\* sock.sendall raise OSError
wire_break ==
    /\ ~wire_broken
    /\ wire_broken' = TRUE
    /\ UNCHANGED <<conn_vars, would_block, wire_ms, wire_sm, master_vars,
                   slave_vars, history_vars>>

\* self.connection.send(command) raises: nothing in run catches it, run ends
\* with the exception and no attribute of the relay is touched
m_send_raises ==
    /\ m_pc = "send"
    /\ wire_broken
    /\ m_pc' = "raised"
    /\ UNCHANGED <<m_running, m_input_queue, m_output_queue, m_obj, m_stopped,
                   m_sent, m_rcvd>>
    /\ UNCHANGED <<conn_vars, wire_broken, would_block,
                   wire_ms, wire_sm, slave_vars, history_vars>>

\* self.connection.receive() raises in the master's run
m_receive_raises ==
    /\ m_pc = "receive"
    /\ wire_broken
    /\ m_pc' = "raised"
    /\ UNCHANGED <<m_running, m_input_queue, m_output_queue, m_obj, m_stopped,
                   m_sent, m_rcvd>>
    /\ UNCHANGED <<conn_vars, wire_broken, would_block,
                   wire_ms, wire_sm, slave_vars, history_vars>>

\* self.connection.send(response_object) raises in the slave's run
s_send_raises ==
    /\ s_pc = "send"
    /\ wire_broken
    /\ s_pc' = "raised"
    /\ UNCHANGED <<s_running, s_input_queue, s_output_queue, s_obj, s_stopped,
                   s_sent, s_rcvd>>
    /\ UNCHANGED <<conn_vars, wire_broken, would_block,
                   wire_ms, wire_sm, master_vars, history_vars>>

\* self.connection.receive() raises in the slave's run
s_receive_raises ==
    /\ s_pc = "receive"
    /\ wire_broken
    /\ s_pc' = "raised"
    /\ UNCHANGED <<s_running, s_input_queue, s_output_queue, s_obj, s_stopped,
                   s_sent, s_rcvd>>
    /\ UNCHANGED <<conn_vars, wire_broken, would_block,
                   wire_ms, wire_sm, master_vars, history_vars>>

(***************************************************************************)
(* The specifications: the two relays over one socket pair (Spec), one     *)
(* framed connection over a byte stream (SpecConn), the relays over a      *)
(* socket pair that may fail (SpecFail), the relays left running with a    *)
(* slave application that answers each command once, under fair            *)
(* scheduling (SpecLive), and the relays left running with applications    *)
(* that also poll (SpecPoll).                                              *)
(***************************************************************************)
Init == ConnInit /\ RelayInit

\* the steps of the master relay's thread
MasterThread ==
    \/ m_run
    \/ m_loop
    \/ m_wait_output
    \/ m_get
    \/ m_send
    \/ m_receive
    \/ m_put

\* the steps of the slave relay's thread
SlaveThread ==
    \/ s_run
    \/ s_loop
    \/ s_receive
    \/ s_put
    \/ s_wait_output
    \/ s_get
    \/ s_send

\* the applications start their relays and call the four methods
Applications ==
    \/ m_start
    \/ s_start
    \/ put_command
    \/ get_response
    \/ get_command
    \/ put_response

Next ==
    \/ MasterThread
    \/ SlaveThread
    \/ Applications
    \/ m_stop
    \/ s_stop

Spec == Init /\ [][Next]_vars

SpecConn == Init /\ [][NextConn]_vars

\* the two relays over a socket pair that may fail
NextFail ==
    \/ Next
    \/ wire_break
    \/ m_send_raises
    \/ m_receive_raises
    \/ s_send_raises
    \/ s_receive_raises

SpecFail == Init /\ [][NextFail]_vars

\* the two relays, left running on a working transport, with a slave
\* application that gets every command and answers each one once; both
\* threads are scheduled fairly, and so are the applications' start() calls
\* and the slave application
NextLive ==
    \/ MasterThread
    \/ SlaveThread
    \/ m_start
    \/ s_start
    \/ put_command
    \/ get_response
    \/ get_command
    \/ put_response_once

SpecLive ==
    /\ Init
    /\ [][NextLive]_vars
    /\ WF_vars(MasterThread)
    /\ WF_vars(SlaveThread)
    /\ WF_vars(m_start)
    /\ WF_vars(s_start)
    /\ WF_vars(get_command)
    /\ WF_vars(put_response_once)

\* the two relays, left running, with applications that also poll their
\* input queues
NextPoll ==
    \/ MasterThread
    \/ SlaveThread
    \/ Applications
    \/ get_command_nowait
    \/ get_response_nowait

SpecPoll == Init /\ [][NextPoll]_vars

(***************************************************************************)
(* Properties of the relays, checked under Spec.                           *)
(***************************************************************************)

\* C1: the master relay never sends a second command before it has received
\* the reply to the first: the frames it has sent exceed the frames it has
\* received by at most one, and when it is about to send it has received a
\* reply to every frame it sent.
C1_MasterAlternation ==
    /\ m_sent <= m_rcvd + 1
    /\ m_pc = "send" => m_sent = m_rcvd

\* two commands were put before any reply arrived: one is sent, the other
\* waits in the queue while the relay waits for the reply
C1_Witness ==
    /\ Len(cmds_put) = 2
    /\ m_output_queue # <<>>
    /\ m_pc = "receive"
    /\ m_sent = 1
    /\ m_rcvd = 0

\* C2: the slave relay never sends a second reply before it has received a
\* new command: the frames it has sent never exceed the frames it has
\* received, the frames received exceed the frames sent by at most one, and
\* when it is about to send it has received exactly one command more than it
\* has answered.
C2_SlaveAlternation ==
    /\ s_sent <= s_rcvd
    /\ s_rcvd <= s_sent + 1
    /\ s_pc = "send" => s_rcvd = s_sent + 1

\* put_response was called twice before any command was got: one reply is
\* sent for the one command received, the other waits in the queue while the
\* relay waits for the next command
C2_Witness ==
    /\ resp_for = <<0, 0>>
    /\ s_output_queue # <<>>
    /\ s_pc = "receive"
    /\ s_sent = 1
    /\ s_rcvd = 1

\* C5 (as claimed): get_command returns values equal to the values passed to
\* put_command, and get_response returns values equal to the values passed to
\* put_response.
C5_RelayDeliversValues ==
    /\ \A n \in 1..Len(cmds_got) : cmds_got[n] = cmds_put[n]
    /\ \A n \in 1..Len(resp_got) : resp_got[n] = resp_put[n]

\* what connection.receive() returns from the frame connection.send(obj)
\* wrote
Delivered(obj) == receive_from(send_frame(obj)).val

\* the slave application has called put_response exactly once after each
\* get_command: its k-th call came when it had got k commands
OnceAfterEachCommand == \A k \in 1..Len(resp_for) : resp_for[k] = k

FrameBytes(n) ==
    SubSeq(sock_sent, snd_calls[n].start + 1,
           IF n < Len(snd_calls) THEN snd_calls[n + 1].start ELSE Len(sock_sent))

\* the byte length of the payload of the n-th send call
PayloadLength(n) ==
    IF snd_calls[n].big > 0 THEN snd_calls[n].big
    ELSE Len(encode(snd_calls[n].string))

\* the first n frames of the stream were all written by this code, so the
\* n-th receive() starts where the n-th frame starts
WrittenByThisCode(n) == \A k \in 1..n : snd_calls[k].op # "raw"

\* C3 (as claimed): receive() of a frame written by send_json(v) or send(v)
\* returns a value equal to v.
C3_JsonRoundTrip ==
    \A n \in 1..Len(rcv_results) :
        (WrittenByThisCode(n) /\ snd_calls[n].op \in {"send_json", "send"}) =>
            /\ rcv_results[n].status = "returned"
            /\ rcv_results[n].val = snd_calls[n].obj

\* C4: receive() of a frame written by send_string(s) returns exactly s, for
\* every string the 9-digit length field can announce, the empty string
\* included.
C4_TextRoundTrip ==
    \A n \in 1..Len(rcv_results) :
        (WrittenByThisCode(n) /\ snd_calls[n].op = "send_string") =>
            /\ rcv_results[n].status = "returned"
            /\ rcv_results[n].val = PyStr(snd_calls[n].string)
            /\ rcv_results[n].used = HEADER_LENGTH + PayloadLength(n)

\* the empty string was sent with send_string and received
C4_Witness ==
    /\ Len(rcv_results) >= 1
    /\ snd_calls[1].op = "send_string"
    /\ snd_calls[1].big = 0
    /\ snd_calls[1].string = <<>>
    /\ rcv_results[1].status = "returned"

\* C7 (as claimed): once a read has returned zero bytes while receive() was
\* collecting the header or the payload, receive() has raised a
\* TransportError.
C7_ZeroReadRaises ==
    rcv_zero > 0 =>
        /\ rcv_pc = "raised"
        /\ rcv_results[Len(rcv_results)].error = "TransportError"

\* C8: every frame written by send_string, send_json or send whose payload is
\* at most 999,999,999 bytes long starts with a header of exactly 10 bytes,
\* the type byte and 9 ASCII decimal digits, written before any byte of the
\* payload, and the digits read as a decimal number are the byte length of
\* the payload that follows.
C8_HeaderInvariant ==
    \A n \in 1..Len(snd_calls) :
        (snd_calls[n].op # "raw" /\ PayloadLength(n) <= MaxFieldLength) =>
            /\ Len(FrameBytes(n)) >= HEADER_LENGTH
            /\ FrameBytes(n)[1] \in {STRING_TYPE, JSON_TYPE}
            /\ \A i \in 2..HEADER_LENGTH : IsDigit(FrameBytes(n)[i])
            /\ DigitsValue(SubSeq(FrameBytes(n), 2, HEADER_LENGTH), 0) = PayloadLength(n)
            /\ snd_calls[n].stage = "initiated" => Len(FrameBytes(n)) = HEADER_LENGTH
            /\ snd_calls[n].stage = "sent" =>
                  /\ Len(FrameBytes(n)) - HEADER_LENGTH = PayloadLength(n)
                  /\ SubSeq(FrameBytes(n), HEADER_LENGTH + 1, Len(FrameBytes(n)))
                        = encode(snd_calls[n].string)

\* a text of two code points and three bytes was sent with send_string
C8_Witness ==
    /\ Len(snd_calls) >= 1
    /\ snd_calls[1].op = "send_string"
    /\ snd_calls[1].string = <<233, 97>>
    /\ snd_calls[1].stage = "sent"

\* C9 (as claimed): a send whose payload length needs a 10th digit writes
\* nothing.
C9_OverflowFailsFast ==
    \A n \in 1..Len(snd_calls) :
        (snd_calls[n].op # "raw" /\ PayloadLength(n) > MaxFieldLength) =>
            FrameBytes(n) = <<>>

\* C10 (as claimed): byte 0 of every frame written by send_json or send is
\* the JSON tag 'j'.
C10_JsonFramesCarryJsonTag ==
    \A n \in 1..Len(snd_calls) :
        snd_calls[n].op \in {"send_json", "send"} => FrameBytes(n)[1] = JSON_TYPE

\* where in the stream the n-th receive() started: the earlier calls took
\* their bytes in order from the start of the stream
RECURSIVE RcvStart(_)
RcvStart(n) == IF n <= 1 THEN 0 ELSE RcvStart(n - 1) + rcv_results[n - 1].used

\* the header the n-th receive() read
RcvHeader(n) == SubSeq(sock_sent, RcvStart(n) + 1, RcvStart(n) + HEADER_LENGTH)

\* C11 (as claimed): a receive() that read a header whose byte 0 is neither
\* 'j' nor 's' has failed; it has not returned a value, None included.
C11_UnknownTagRejected ==
    \A n \in 1..Len(rcv_results) :
        RcvHeader(n)[1] \notin {JSON_TYPE, STRING_TYPE} =>
            rcv_results[n].status = "raised"

\* C12 (as claimed): a receive() that read a header whose bytes 1-9 are not
\* all ASCII decimal digits has failed without reading a payload: it took
\* the 10 bytes of the header from the stream and no more.
C12_NonDigitLengthRejected ==
    \A n \in 1..Len(rcv_results) :
        (\E i \in 2..HEADER_LENGTH : ~IsDigit(RcvHeader(n)[i])) =>
            /\ rcv_results[n].status = "raised"
            /\ rcv_results[n].used = HEADER_LENGTH

\* the stream from where the n-th receive() started
RcvStream(n) == SubSeq(sock_sent, RcvStart(n) + 1, Len(sock_sent))

\* the outcome res of a receive() is the outcome r of receive() on the same
\* stream delivered unsplit
SameAsUnsplit(res, r) ==
    /\ res.error = r.error
    /\ res.val = r.val
    /\ res.used = r.used

\* the bytes taken from the stream so far
StreamPos == Len(sock_sent) - Len(sock_buf)

\* C15: however the transport splits the stream into reads, receive_length
\* holds exactly the bytes that follow its starting point, in order and never
\* more than were asked for; every receive() that ended took the same bytes
\* and gave the same outcome as on the unsplit stream; and between calls the
\* unread stream starts at the first byte after the frames received.
C15_ShortReadsTolerated ==
    /\ rcv_pc \in {"header", "payload"} =>
          /\ Len(rcv_data) <= rcv_want
          /\ rcv_data = SubSeq(sock_sent, StreamPos - Len(rcv_data) + 1, StreamPos)
          /\ StreamPos = RcvStart(Len(rcv_results) + 1) + rcv_used
    /\ \A n \in 1..Len(rcv_results) :
          SameAsUnsplit(rcv_results[n], receive_from(RcvStream(n)))
    /\ rcv_pc = "idle" => StreamPos = RcvStart(Len(rcv_results) + 1)

\* a short read gave receive_length the first of two payload bytes, and the
\* stream holds the second one and the whole of the following frame
C15_Witness ==
    /\ rcv_pc = "payload"
    /\ rcv_want = 2
    /\ rcv_data = <<104>>
    /\ sock_buf = <<105, STRING_TYPE, 48, 48, 48, 48, 48, 48, 48, 48, 48>>

(***************************************************************************)
(* Further properties of the relays, checked under Spec.                   *)
(***************************************************************************)
\* frames written to the connection and not yet read, both directions
InFlight == (m_sent - s_rcvd) + (s_sent - m_rcvd)

\* C16: at most one frame is in flight on the connection, both directions
\* counted together, however many commands and replies are queued: the two
\* directions never hold bytes at the same time, and the bytes a direction
\* holds are the one frame its relay sent last.
C16_HalfDuplex ==
    /\ InFlight \in {0, 1}
    /\ ~(wire_ms # <<>> /\ wire_sm # <<>>)
    /\ wire_ms # <<>> => (wire_ms = send_frame(m_obj) /\ m_sent - s_rcvd = 1)
    /\ wire_sm # <<>> => (wire_sm = send_frame(s_obj) /\ s_sent - m_rcvd = 1)

\* a reply is in flight while a second command and a second reply are queued
C16_Witness ==
    /\ wire_sm # <<>>
    /\ m_output_queue # <<>>
    /\ s_output_queue # <<>>

\* a step of one of the four application methods: it adds to the record of
\* the values put or got
ApplicationStep ==
    \/ cmds_put' # cmds_put
    \/ cmds_got' # cmds_got
    \/ resp_put' # resp_put
    \/ resp_got' # resp_got

\* a step of a relay thread: run moves on
RelayThreadStep == m_pc' # m_pc \/ s_pc' # s_pc

\* C17: a step of put_command, get_response, get_command or put_response
\* changes one queue of its relay and nothing of the connection, its
\* transport or the relay threads, and every step that reads from or writes
\* to the connection is a step of a relay thread.
C17_ApplicationLeavesConnection ==
    [][/\ ApplicationStep =>
             /\ UNCHANGED <<wire_ms, wire_sm, conn_vars>>
             /\ UNCHANGED <<m_pc, m_obj, m_running, m_sent, m_rcvd>>
             /\ UNCHANGED <<s_pc, s_obj, s_running, s_sent, s_rcvd>>
             /\ \/ m_output_queue' # m_output_queue
                \/ m_input_queue' # m_input_queue
                \/ s_output_queue' # s_output_queue
                \/ s_input_queue' # s_input_queue
       /\ (wire_ms' # wire_ms \/ wire_sm' # wire_sm) => RelayThreadStep]_vars

\* put_command was called a second time while the first command was in
\* flight to the slave
C17_Witness ==
    /\ Len(cmds_put) = 2
    /\ m_output_queue = <<cmds_put[2]>>
    /\ wire_ms = send_frame(cmds_put[1])

\* C20: when _wait_output has returned and run stands at output_queue.get(),
\* the queue is not empty, so get() does not block; and the value it returned
\* is the oldest one the application put that was not yet taken.
C20_CheckThenGet ==
    /\ m_pc = "get" => m_output_queue # <<>>
    /\ s_pc = "get" => s_output_queue # <<>>
    /\ m_pc = "send" => m_obj = cmds_put[m_sent + 1]
    /\ s_pc = "send" => s_obj = resp_put[s_sent + 1]

\* the slave relay stands between the check and the get with two replies
\* queued, and the master relay has taken one of two commands
C20_Witness ==
    /\ s_pc = "get"
    /\ Len(s_output_queue) = 2
    /\ Len(cmds_put) = 2
    /\ m_output_queue = <<cmds_put[2]>>

(***************************************************************************)
(* Properties of the relays on a transport that may fail, checked under    *)
(* SpecFail.                                                               *)
(***************************************************************************)
\* C13 (as claimed): a relay whose run has ended with a failure of
\* connection.send() or connection.receive() is not still marked running.
C13_FailureSurfaced ==
    /\ m_pc = "raised" => ~m_running
    /\ s_pc = "raised" => ~s_running

(***************************************************************************)
(* Properties of the relays with polling applications, checked under       *)
(* SpecPoll.                                                               *)
(***************************************************************************)
\* the values the relay thread has pushed onto its input queue
PushedToSlave == s_rcvd - (IF s_pc = "put" THEN 1 ELSE 0)
PushedToMaster == m_rcvd - (IF m_pc = "put" THEN 1 ELSE 0)

\* what the connection delivers of each command and each reply
DeliveredOf == [obj \in Cmds \cup Replies |-> Delivered(obj)]

\* a get(block=False) raises queue.Empty in this step
WouldBlockStep == would_block' # would_block

\* the call that raises queue.Empty in this step
WouldBlockCall == would_block'[Len(would_block')].call

\* C14: a get_command(blocking=False) or get_response(blocking=False) that
\* raises queue.Empty found its input queue empty and leaves both queues of
\* both relays, the relay threads and the connection as they were. Every
\* value got, with or without blocking, before or after such a signal, is a
\* value the relay has pushed: the values got are, in order and without loss,
\* what the connection delivered, and their number plus the length of the
\* queue is the number of values pushed.
C14_WouldBlockRecoverable ==
    /\ [][WouldBlockStep =>
             /\ WouldBlockCall = "get_command" => s_input_queue = <<>>
             /\ WouldBlockCall = "get_response" => m_input_queue = <<>>
             /\ UNCHANGED <<m_input_queue, m_output_queue, s_input_queue,
                            s_output_queue>>
             /\ UNCHANGED <<m_pc, m_obj, m_running, s_pc, s_obj, s_running>>
             /\ UNCHANGED <<wire_ms, wire_sm, conn_vars, cmds_got, resp_got>>]_vars
    /\ [](/\ Len(cmds_got) + Len(s_input_queue) = PushedToSlave
          /\ Len(resp_got) + Len(m_input_queue) = PushedToMaster
          /\ Len(cmds_got) <= Len(cmds_put)
          /\ Len(resp_got) <= Len(resp_put)
          /\ \A n \in 1..Len(cmds_got) : cmds_got[n] = DeliveredOf[cmds_put[n]]
          /\ \A n \in 1..Len(resp_got) : resp_got[n] = DeliveredOf[resp_put[n]])

\* get_command(blocking=False) raised queue.Empty before any command was got,
\* and a later call has returned the command the relay pushed since
C14_Witness ==
    /\ would_block = <<[call |-> "get_command", got |-> 0]>>
    /\ Len(cmds_got) = 1
    /\ cmds_got[1] = DeliveredOf[cmds_put[1]]

(***************************************************************************)
(* Stopping and progress.                                                  *)
(***************************************************************************)
\* C18 (as claimed): once the application has cleared a started relay's
\* running flag, the relay thread ends without further input from the peer
\* or the application: until it has left its loop it can take a step of its
\* own, and when it next tests the flag, the flag is still cleared.
C18_StopTerminates ==
    /\ (m_stopped /\ m_pc # "done") => ENABLED MasterThread
    /\ (s_stopped /\ s_pc # "done") => ENABLED SlaveThread
    /\ (m_stopped /\ m_pc = "loop") => ~m_running
    /\ (s_stopped /\ s_pc = "loop") => ~s_running

\* C19: over a working transport, with both threads scheduled fairly and a
\* slave application that gets every command and answers each one once, the
\* n-th put_command leads to an n-th value pushed onto the master's input
\* queue, for every n.
C19_EveryCommandAnswered ==
    \A n \in 1..MaxCmds : (Len(cmds_put) >= n) ~> (PushedToMaster >= n)

\* two commands were put before the first was answered, and both replies
\* have been pushed onto the master's input queue
C19_Witness ==
    /\ Len(cmds_put) = 2
    /\ resp_for = <<1, 2>>
    /\ PushedToMaster = 2
    /\ Len(m_input_queue) = 2

====
